---- MODULE Spec2Model ----
(***************************************************************************)
(* Model of appenv.py: the environment cache (_prepare, ensure_venv, the   *)
(* prune loop, reset), the callers that exec into the environment          *)
(* (run_app, run) and update_lockfile with its scratch environment and     *)
(* its lock merge, as operations run one after another or interleaved.     *)
(*                                                                         *)
(* Byte strings are sequences of byte values, file names are strings, and  *)
(* the store (meta_args.appenvdir) is a function from child names to       *)
(* entries.                                                                *)
(***************************************************************************)
EXTENDS Naturals, Integers, Sequences, FiniteSets, TLC

VARIABLES
    store,       \* children of meta_args.appenvdir: name -> entry
    lockfile,    \* bytes of <base>/requirements.lock, or NoFile
    executable,  \* os.fsencode(os.path.realpath(sys.executable))
    bootstrap,   \* bytes of __file__
    inv,         \* per process: position and locals of the running invocation
    prev,        \* the operation that ended last (history)
    reqtxt,      \* lines of requirements.txt read by update_lockfile
    result,      \* lines printed by `pip freeze` in update_lockfile
    ul           \* position and locals of update_lockfile's merge

vars == <<store, lockfile, executable, bootstrap, inv, prev, reqtxt, result, ul>>

-----------------------------------------------------------------------------
(* The inputs of the identity hash.                                        *)

\* Byte strings are sequences of byte values. These stand for a file that does
\* not exist and for what an environment has installed.
NoFile == <<-1>>
Nothing == <<-2>>
Partial == <<-3>>
FromRequirementsTxt == <<-4>>

\* Interpreter paths the tool may be started with.
Py3 == <<47, 111, 112, 116, 47, 112, 121, 51>>       \* "/opt/py3"
Py39 == <<47, 111, 112, 116, 47, 112, 121, 51, 57>>  \* "/opt/py39"
Interps == {Py3, Py39}

\* Lock documents that may sit at <base>/requirements.lock.
Lock9a == <<57, 97, 61, 61, 49, 10>>  \* "9a==1\n"
LockA == <<97, 61, 61, 49, 10>>       \* "a==1\n"
Locks == {Lock9a, LockA}

\* Lock documents that update_lockfile writes for the requirements below.
\* "Django==3.0\nalpha==1.0\n"
LockDjango ==
    <<68, 106, 97, 110, 103, 111, 61, 61, 51, 46, 48, 10, 97, 108, 112,
      104, 97, 61, 61, 49, 46, 48, 10>>
\* "Django==3.0\nalpha==1.0\nmy-pkg==1\n"
LockDjangoMyPkg ==
    <<68, 106, 97, 110, 103, 111, 61, 61, 51, 46, 48, 10, 97, 108, 112,
      104, 97, 61, 61, 49, 46, 48, 10, 109, 121, 45, 112, 107, 103, 61, 61,
      49, 10>>
\* ""
LockEmpty == <<>>
WrittenLocks == {LockDjango, LockDjangoMyPkg, LockEmpty}

\* Contents of the bootstrap script itself.
BootV1 == <<35, 33, 97, 112, 112, 101, 110, 118, 45, 118, 49>>  \* "#!appenv-v1"
BootV2 == <<35, 33, 97, 112, 112, 101, 110, 118, 45, 118, 50>>  \* "#!appenv-v2"
Boots == {BootV1, BootV2}

\* b"".join(hash_content)
JoinBytes(interp, requirements, self) == interp \o requirements \o self

\* hashlib.new("sha256", data).hexdigest()[:8], tabulated on the joined byte
\* strings of Triples below (the values are the real digests).
sha256hex8 ==
    \* /opt/py39a==1\n#!appenv-v1
    (<<47, 111, 112, 116, 47, 112, 121, 51, 57, 97, 61, 61, 49, 10,
      35, 33, 97, 112, 112, 101, 110, 118, 45, 118, 49>>
        :> "ad0081bf")
    @@
    \* /opt/py39a==1\n#!appenv-v2
    (<<47, 111, 112, 116, 47, 112, 121, 51, 57, 97, 61, 61, 49, 10,
      35, 33, 97, 112, 112, 101, 110, 118, 45, 118, 50>>
        :> "3e9c3aed")
    @@
    \* /opt/py3a==1\n#!appenv-v1
    (<<47, 111, 112, 116, 47, 112, 121, 51, 97, 61, 61, 49, 10,
      35, 33, 97, 112, 112, 101, 110, 118, 45, 118, 49>>
        :> "972e7cb2")
    @@
    \* /opt/py3a==1\n#!appenv-v2
    (<<47, 111, 112, 116, 47, 112, 121, 51, 97, 61, 61, 49, 10,
      35, 33, 97, 112, 112, 101, 110, 118, 45, 118, 50>>
        :> "ac39468a")
    @@
    \* /opt/py399a==1\n#!appenv-v1
    (<<47, 111, 112, 116, 47, 112, 121, 51, 57, 57, 97, 61, 61, 49, 10,
      35, 33, 97, 112, 112, 101, 110, 118, 45, 118, 49>>
        :> "c0a5f7f1")
    @@
    \* /opt/py399a==1\n#!appenv-v2
    (<<47, 111, 112, 116, 47, 112, 121, 51, 57, 57, 97, 61, 61, 49, 10,
      35, 33, 97, 112, 112, 101, 110, 118, 45, 118, 50>>
        :> "d7bf43b8")
    @@
    \* /opt/py3Django==3.0\nalpha==1.0\n#!appenv-v1
    (<<47, 111, 112, 116, 47, 112, 121, 51, 68, 106, 97, 110, 103, 111, 61,
       61, 51, 46, 48, 10, 97, 108, 112, 104, 97, 61, 61, 49, 46, 48, 10,
       35, 33, 97, 112, 112, 101, 110, 118, 45, 118, 49>>
        :> "1470862f")
    @@
    \* /opt/py3Django==3.0\nalpha==1.0\nmy-pkg==1\n#!appenv-v1
    (<<47, 111, 112, 116, 47, 112, 121, 51, 68, 106, 97, 110, 103, 111, 61,
       61, 51, 46, 48, 10, 97, 108, 112, 104, 97, 61, 61, 49, 46, 48, 10,
       109, 121, 45, 112, 107, 103, 61, 61, 49, 10, 35, 33, 97, 112, 112,
       101, 110, 118, 45, 118, 49>>
        :> "fb3fbb94")
    @@
    \* /opt/py3#!appenv-v1
    (<<47, 111, 112, 116, 47, 112, 121, 51, 35, 33, 97, 112, 112, 101, 110,
       118, 45, 118, 49>>
        :> "b6aa1b4a")

\* env_hash of _prepare.
env_hash(interp, requirements, self) ==
    sha256hex8[JoinBytes(interp, requirements, self)]

Triples ==
    (Interps \X Locks \X Boots) \cup ({Py3} \X WrittenLocks \X {BootV1})

Identities == {env_hash(t[1], t[2], t[3]) : t \in Triples}

-----------------------------------------------------------------------------
(* The store.                                                              *)

\* Children that other tools leave in the store directory.
ForeignNames == {"notes.txt", ".DS_Store"}

\* Names that begin with a dot: glob's "*" does not match them.
Hidden(name) == name \in {".DS_Store"}

Names == Identities \cup {"unclean", "updatelock"} \cup ForeignNames

Absent ==
    [kind |-> "none", python |-> FALSE, pip3 |-> FALSE, lockcopy |-> NoFile,
     installed |-> Nothing, checked |-> FALSE, ready |-> FALSE,
     packages |-> {}]

PlainFile == [Absent EXCEPT !.kind = "file"]

EmptyDir == [Absent EXCEPT !.kind = "dir"]

\* os.path.exists(path)
Exists(s, name) == s[name].kind # "none"

\* os.listdir of the store
Children(s) == {n \in Names : Exists(s, n)}

\* glob.glob("{meta_args.appenvdir}/*")
GlobStar(s) == {n \in Children(s) : ~Hidden(n)}

\* a whitelist that keeps the entries of all identities
WhitelistKeepsIdentities(env_dir) == Identities \cup {"unclean"}

\* whitelist of _prepare
Whitelist(env_dir) == {env_dir, "unclean"}

\* rm -rf, shutil.rmtree, os.unlink
Remove(s, name) == [s EXCEPT ![name] = Absent]

-----------------------------------------------------------------------------
(* Invocations.                                                            *)

Procs == {1, 2}

Idle ==
    [pc |-> "idle", clean |-> FALSE, requirements |-> NoFile,
     env_dir |-> "", todo |-> {}, target |-> "", ret |-> "", log |-> <<>>,
     error |-> "", inputs |-> <<>>, entry0 |-> Absent, before |-> {}]

NoPrev == [kind |-> "none", ok |-> FALSE, inputs |-> <<>>, dir |-> ""]

NoMerge == [pc |-> "off"]

\* The step of process p moves to pc `next`, having issued `what`.
Goto(p, next) == inv' = [inv EXCEPT ![p].pc = next]

Issue(p, what, next) ==
    inv' = [inv EXCEPT ![p].pc = next, ![p].log = Append(@, what)]

\* cmd() raising ValueError, or any other exception: it propagates to the top
\* level and ends the process.
Raise(p, what) ==
    inv' = [inv EXCEPT ![p].pc = "failed", ![p].error = what,
                       ![p].log = Append(@, what)]

-----------------------------------------------------------------------------
(* _prepare, lines 184-246, one action per filesystem step or command.     *)

others == <<lockfile, executable, bootstrap, prev, reqtxt, result, ul>>

\* the unclean path runs the prune loop as well
StartUncleanPrunes(p, u) ==
    /\ inv[p].pc = "idle"
    /\ IF u \/ lockfile = NoFile
       THEN inv' = [inv EXCEPT ![p] =
                [Idle EXCEPT !.pc = "glob",
                             !.env_dir = "unclean", !.target = "unclean",
                             !.ret = "u_install",
                             !.entry0 = store["unclean"]]]
       ELSE inv' = [inv EXCEPT ![p] =
                [Idle EXCEPT !.pc = "glob", !.clean = TRUE,
                             !.requirements = lockfile,
                             !.env_dir = env_hash(executable, lockfile, bootstrap),
                             !.inputs = <<executable, lockfile, bootstrap>>,
                             !.entry0 =
                                 store[env_hash(executable, lockfile, bootstrap)]]]
    /\ UNCHANGED <<store, others>>

\* run_app (line 251) and run (line 264) call _prepare; lines 190-205: the
\* branch on meta_args.unclean and on the lock file, the read of the lock and
\* the identity hash.
Start(p, u) ==
    /\ inv[p].pc = "idle"
    /\ IF u \/ lockfile = NoFile
       THEN inv' = [inv EXCEPT ![p] =
                [Idle EXCEPT !.pc = "ev_pip3",
                             !.env_dir = "unclean", !.target = "unclean",
                             !.ret = "u_install",
                             !.entry0 = store["unclean"]]]
       ELSE inv' = [inv EXCEPT ![p] =
                [Idle EXCEPT !.pc = "glob", !.clean = TRUE,
                             !.requirements = lockfile,
                             !.env_dir = env_hash(executable, lockfile, bootstrap),
                             !.inputs = <<executable, lockfile, bootstrap>>,
                             !.entry0 =
                                 store[env_hash(executable, lockfile, bootstrap)]]]
    /\ UNCHANGED <<store, others>>

\* lines 207-210: the whitelist and the glob.
Glob(p) ==
    /\ inv[p].pc = "glob"
    /\ inv' = [inv EXCEPT ![p].pc = "prune",
                          ![p].todo = GlobStar(store) \ Whitelist(inv[p].env_dir),
                          ![p].before = Children(store)]
    /\ UNCHANGED <<store, others>>

\* lines 211-216: one pass of the loop body. A path that vanished since the glob
\* makes os.unlink raise.
PruneOne(p) ==
    /\ inv[p].pc = "prune"
    /\ \E path \in inv[p].todo :
          IF Exists(store, path)
          THEN /\ store' = Remove(store, path)
               /\ inv' = [inv EXCEPT ![p].todo = @ \ {path},
                                     ![p].log = Append(@, "prune")]
          ELSE /\ Raise(p, "prune")
               /\ UNCHANGED store
    /\ UNCHANGED others

\* the loop of lines 209-216 ends.
PruneDone(p) ==
    /\ inv[p].pc = "prune"
    /\ inv[p].todo = {}
    /\ Goto(p, "exists")
    /\ UNCHANGED <<store, others>>

\* line 217
CheckExists(p) ==
    /\ inv[p].pc = "exists"
    /\ Goto(p, IF Exists(store, inv[p].env_dir) THEN "has_marker" ELSE "exists2")
    /\ UNCHANGED <<store, others>>

\* the marker is not trusted: every existing entry is rebuilt
CheckMarkerAlwaysRebuilds(p) ==
    /\ inv[p].pc = "has_marker"
    /\ Goto(p, "rm")
    /\ UNCHANGED <<store, others>>

\* lines 222-227
CheckMarker(p) ==
    /\ inv[p].pc = "has_marker"
    /\ Goto(p, IF store[inv[p].env_dir].ready THEN "exists2" ELSE "rm")
    /\ UNCHANGED <<store, others>>

\* the inconsistent entry is reported but not deleted
RmEnvDirKeeps(p) ==
    /\ inv[p].pc = "rm"
    /\ \/ /\ Issue(p, "rm", "exists2")
          /\ UNCHANGED store
       \/ /\ Raise(p, "rm")
          /\ UNCHANGED store
    /\ UNCHANGED others

\* line 228
RmEnvDir(p) ==
    /\ inv[p].pc = "rm"
    /\ \/ /\ store' = Remove(store, inv[p].env_dir)
          /\ Issue(p, "rm", "exists2")
       \/ /\ Raise(p, "rm")
          /\ UNCHANGED store
    /\ UNCHANGED others

\* the build is skipped even when the entry is missing
CheckExists2NeverBuilds(p) ==
    /\ inv[p].pc = "exists2"
    /\ Goto(p, "exec")
    /\ UNCHANGED <<store, others>>

\* line 230, and line 246 when the entry exists
CheckExists2(p) ==
    /\ inv[p].pc = "exists2"
    /\ IF Exists(store, inv[p].env_dir)
       THEN Goto(p, "exec")
       ELSE inv' = [inv EXCEPT ![p].pc = "ev_pip3",
                               ![p].target = inv[p].env_dir,
                               ![p].ret = "lockcopy"]
    /\ UNCHANGED <<store, others>>

-----------------------------------------------------------------------------
(* ensure_venv(target), lines 58-130. The repair of a stdlib without       *)
(* ensurepip (lines 73-120) is left out: it is a no-op where the import    *)
(* succeeds.                                                               *)

\* lines 59-62
EvPip3(p) ==
    /\ inv[p].pc = "ev_pip3"
    /\ Goto(p, IF store[inv[p].target].pip3 THEN inv[p].ret ELSE "ev_exists")
    /\ UNCHANGED <<store, others>>

\* line 64
EvExists(p) ==
    /\ inv[p].pc = "ev_exists"
    /\ Goto(p, IF Exists(store, inv[p].target) THEN "ev_rm" ELSE "ev_create")
    /\ UNCHANGED <<store, others>>

\* line 66
EvRm(p) ==
    /\ inv[p].pc = "ev_rm"
    /\ \/ /\ store' = Remove(store, inv[p].target)
          /\ Issue(p, "rm", "ev_create")
       \/ /\ Raise(p, "rm")
          /\ UNCHANGED store
    /\ UNCHANGED others

\* venv.create(target, with_pip=False): an existing directory is kept and
\* populated, a plain file in its place makes it raise.
VenvCreated(s, target) ==
    [s EXCEPT ![target] =
        [(IF s[target].kind = "dir" THEN s[target] ELSE EmptyDir)
            EXCEPT !.python = TRUE]]

\* line 71; a failing venv.create may have made the directory already.
EvCreate(p) ==
    /\ inv[p].pc = "ev_create"
    /\ \/ /\ store[inv[p].target].kind # "file"
          /\ store' = VenvCreated(store, inv[p].target)
          /\ Issue(p, "venv", "ev_ensurepip")
       \/ /\ \E made \in BOOLEAN :
                store' = IF made /\ ~Exists(store, inv[p].target)
                         THEN [store EXCEPT ![inv[p].target] = EmptyDir]
                         ELSE store
          /\ Raise(p, "venv")
    /\ UNCHANGED others

\* line 123
EvEnsurepip(p) ==
    /\ inv[p].pc = "ev_ensurepip"
    /\ \/ /\ store[inv[p].target].python
          /\ store' = [store EXCEPT ![inv[p].target].pip3 = TRUE]
          /\ Issue(p, "ensurepip", "ev_upgrade")
       \/ /\ Raise(p, "ensurepip")
          /\ UNCHANGED store
    /\ UNCHANGED others

\* lines 124-130; the function returns to its caller.
EvUpgrade(p) ==
    /\ inv[p].pc = "ev_upgrade"
    /\ \/ /\ store[inv[p].target].python /\ store[inv[p].target].pip3
          /\ Issue(p, "pip-upgrade", inv[p].ret)
       \/ Raise(p, "pip-upgrade")
    /\ UNCHANGED <<store, others>>

-----------------------------------------------------------------------------
(* The build of _prepare, lines 233-244, and the unclean install.          *)

\* the copy is made from the base lock file as it is at this moment
WriteLockCopyRereads(p) ==
    /\ inv[p].pc = "lockcopy"
    /\ IF store[inv[p].env_dir].kind = "dir"
       THEN /\ store' = [store EXCEPT ![inv[p].env_dir].lockcopy = lockfile]
            /\ Issue(p, "lockcopy", "install")
       ELSE /\ Raise(p, "lockcopy")
            /\ UNCHANGED store
    /\ UNCHANGED others

\* lines 233-234
WriteLockCopy(p) ==
    /\ inv[p].pc = "lockcopy"
    /\ IF store[inv[p].env_dir].kind = "dir"
       THEN /\ store' = [store EXCEPT ![inv[p].env_dir].lockcopy =
                                          inv[p].requirements]
            /\ Issue(p, "lockcopy", "install")
       ELSE /\ Raise(p, "lockcopy")
            /\ UNCHANGED store
    /\ UNCHANGED others

\* a failing install cleans its directory up
InstallFailedCleansUp(s, env_dir) == Remove(s, env_dir)

\* what a failing pip install leaves in the environment
InstallFailed(s, env_dir) ==
    IF s[env_dir].python
    THEN [s EXCEPT ![env_dir].installed = Partial]
    ELSE s

\* lines 238-239: pip install --no-deps -r {env_dir}/requirements.lock
Install(p) ==
    /\ inv[p].pc = "install"
    /\ \/ /\ store[inv[p].env_dir].python /\ store[inv[p].env_dir].pip3
          /\ store[inv[p].env_dir].lockcopy # NoFile
          /\ store' = [store EXCEPT ![inv[p].env_dir].installed =
                                        store[inv[p].env_dir].lockcopy]
          /\ Issue(p, "install", "check")
       \/ /\ store' = InstallFailed(store, inv[p].env_dir)
          /\ Raise(p, "install")
    /\ UNCHANGED others

\* the exit status of pip check is ignored
CheckIgnoresFailure(p) ==
    /\ inv[p].pc = "check"
    /\ \/ /\ store[inv[p].env_dir].python /\ store[inv[p].env_dir].pip3
          /\ store' = [store EXCEPT ![inv[p].env_dir].checked = TRUE]
          /\ Issue(p, "check", "marker")
       \/ /\ Issue(p, "check", "marker")
          /\ UNCHANGED store
    /\ UNCHANGED others

\* line 241: pip check
Check(p) ==
    /\ inv[p].pc = "check"
    /\ \/ /\ store[inv[p].env_dir].python /\ store[inv[p].env_dir].pip3
          /\ store' = [store EXCEPT ![inv[p].env_dir].checked = TRUE]
          /\ Issue(p, "check", "marker")
       \/ /\ Raise(p, "check")
          /\ UNCHANGED store
    /\ UNCHANGED others

\* lines 243-244, then line 246
WriteMarker(p) ==
    /\ inv[p].pc = "marker"
    /\ IF store[inv[p].env_dir].kind = "dir"
       THEN /\ store' = [store EXCEPT ![inv[p].env_dir].ready = TRUE]
            /\ Issue(p, "marker", "exec")
       ELSE /\ Raise(p, "marker")
            /\ UNCHANGED store
    /\ UNCHANGED others

\* the unclean install pins what it installed in the base lock file
UncleanInstallWritesLock(p) ==
    /\ inv[p].pc = "u_install"
    /\ \/ /\ store[inv[p].env_dir].python /\ store[inv[p].env_dir].pip3
          /\ store' = [store EXCEPT ![inv[p].env_dir].installed =
                                        FromRequirementsTxt]
          /\ lockfile' = LockA
          /\ Issue(p, "install", "exec")
       \/ /\ store' = InstallFailed(store, inv[p].env_dir)
          /\ lockfile' = lockfile
          /\ Raise(p, "install")
    /\ UNCHANGED <<executable, bootstrap, prev, reqtxt, result, ul>>

\* lines 194-196: pip install -r requirements.txt --upgrade, then line 246
UncleanInstall(p) ==
    /\ inv[p].pc = "u_install"
    /\ \/ /\ store[inv[p].env_dir].python /\ store[inv[p].env_dir].pip3
          /\ store' = [store EXCEPT ![inv[p].env_dir].installed =
                                        FromRequirementsTxt]
          /\ Issue(p, "install", "exec")
       \/ /\ store' = InstallFailed(store, inv[p].env_dir)
          /\ Raise(p, "install")
    /\ UNCHANGED others

\* the operation process p runs: update_lockfile works in "updatelock"
Kind(p) ==
    IF inv[p].clean THEN "clean"
    ELSE IF inv[p].env_dir = "updatelock" THEN "update"
    ELSE "unclean"

\* what the operation of process p leaves in the history when it ends
Ended(p, kind, ok) ==
    IF kind = "clean" /\ ok
    THEN [kind |-> kind, ok |-> ok, inputs |-> inv[p].inputs,
          dir |-> inv[p].env_dir]
    ELSE [NoPrev EXCEPT !.kind = kind]

\* run_app line 254, run line 268: os.execv replaces the process.
Exec(p) ==
    /\ inv[p].pc = "exec"
    /\ prev' = Ended(p, Kind(p), TRUE)
    /\ inv' = [inv EXCEPT ![p] = Idle]
    /\ UNCHANGED <<store, lockfile, executable, bootstrap, reqtxt, result, ul>>

\* the exception reaches the top level: the process ends with an error.
Exit(p) ==
    /\ inv[p].pc = "failed"
    /\ prev' = Ended(p, Kind(p), FALSE)
    /\ inv' = [inv EXCEPT ![p] = Idle]
    /\ UNCHANGED <<store, lockfile, executable, bootstrap, reqtxt, result, ul>>

\* the process is killed between two steps.
Crash(p) ==
    /\ inv[p].pc \notin {"idle", "failed", "exec"}
    /\ prev' = Ended(p, "crash", FALSE)
    /\ inv' = [inv EXCEPT ![p] = Idle]
    /\ ul' = IF Kind(p) = "update" THEN NoMerge ELSE ul
    /\ UNCHANGED <<store, lockfile, executable, bootstrap, reqtxt, result>>

\* reset, lines 271-274; main() makes the directory anew on the next start.
Reset ==
    /\ \A p \in Procs : inv[p].pc = "idle"
    /\ Children(store) # {}
    /\ store' = [n \in Names |-> Absent]
    /\ prev' = [NoPrev EXCEPT !.kind = "reset"]
    /\ UNCHANGED <<lockfile, executable, bootstrap, inv, reqtxt, result, ul>>

-----------------------------------------------------------------------------
(* The environment of the tool.                                            *)

\* another interpreter becomes sys.executable (ensure_newest_python, an upgrade)
SetExecutable(i) ==
    /\ i # executable
    /\ executable' = i
    /\ UNCHANGED <<store, lockfile, bootstrap, inv, prev, reqtxt, result, ul>>

\* the bootstrap script is replaced by another version
SetBootstrap(b) ==
    /\ b # bootstrap
    /\ bootstrap' = b
    /\ UNCHANGED <<store, lockfile, executable, inv, prev, reqtxt, result, ul>>

\* a new lock document is put in place (a checkout, a lock update)
SetLock(l) ==
    /\ l # lockfile
    /\ lockfile' = l
    /\ UNCHANGED <<store, executable, bootstrap, inv, prev, reqtxt, result, ul>>

\* another tool drops a file into the store directory
Foreign(n) ==
    /\ ~Exists(store, n)
    /\ store' = [store EXCEPT ![n] = PlainFile]
    /\ UNCHANGED <<lockfile, executable, bootstrap, inv, prev, reqtxt, result, ul>>

\* no invocation is running
Quiet == \A p \in Procs : inv[p].pc = "idle"

Env ==
    \/ \E i \in Interps : SetExecutable(i)
    \/ \E b \in Boots : SetBootstrap(b)
    \/ \E l \in Locks : SetLock(l)
    \/ \E n \in ForeignNames : Foreign(n)

-----------------------------------------------------------------------------
(* Specification of invocations that run one after another.                *)

Init ==
    /\ store = [n \in Names |-> Absent]
    /\ lockfile \in Locks \cup {NoFile}
    /\ executable \in Interps
    /\ bootstrap \in Boots
    /\ inv = [p \in Procs |-> Idle]
    /\ prev = NoPrev
    /\ reqtxt = <<>>
    /\ result = <<>>
    /\ ul = NoMerge

Steps(p) ==
    \/ Glob(p) \/ PruneOne(p) \/ PruneDone(p)
    \/ CheckExists(p) \/ CheckMarker(p) \/ RmEnvDir(p) \/ CheckExists2(p)
    \/ EvPip3(p) \/ EvExists(p) \/ EvRm(p) \/ EvCreate(p)
    \/ EvEnsurepip(p) \/ EvUpgrade(p)
    \/ WriteLockCopy(p) \/ Install(p) \/ Check(p) \/ WriteMarker(p)
    \/ UncleanInstall(p)
    \/ Exec(p) \/ Exit(p) \/ Crash(p)

Main == 1

Next ==
    \/ \E u \in BOOLEAN : Start(Main, u)
    \/ Steps(Main)
    \/ Reset
    \/ Quiet /\ Env

Spec == Init /\ [][Next]_vars

-----------------------------------------------------------------------------
(* update_lockfile, lines 153-180: the merge of the requested and the      *)
(* resolved specs. Lines of text are sequences of character codes.         *)

MaxReq == 2
MaxFrozen == 2

\* Lines a requirements.txt may hold (the last one is a blank line).
ReqLines ==
    {<<100, 106, 97, 110, 103, 111, 32, 64, 32, 103, 105, 116, 43,
      104, 116, 116, 112, 115, 58, 47, 47, 120, 47, 100>>,  \* "django @ git+https://x/d"
     <<100, 106, 97, 110, 103, 111, 61, 61, 51, 46, 48>>,  \* "django==3.0"
     <<109, 121, 95, 112, 107, 103, 32, 64, 32,
      104, 116, 116, 112, 115, 58, 47, 47, 120, 47, 109>>,  \* "my_pkg @ https://x/m"
     <<>>}  \* ""

\* Lines `pip freeze` may print.
FreezeLines ==
    {<<68, 106, 97, 110, 103, 111, 61, 61, 51, 46, 48>>,  \* "Django==3.0"
     <<97, 108, 112, 104, 97, 61, 61, 49, 46, 48>>,  \* "alpha==1.0"
     <<122, 101, 116, 97, 61, 61, 50, 46, 48>>,  \* "zeta==2.0"
     <<109, 121, 45, 112, 107, 103, 61, 61, 49>>}  \* "my-pkg==1"

SeqsUpTo(S, n) == UNION {[1..k -> S] : k \in 0..n}

IsAlnumDot(c) ==
    \/ c \in 48..57
    \/ c \in 65..90
    \/ c \in 97..122
    \/ c = 46

\* characters of a project name: letters, digits, ".", "-", "_"
IsNameChar(c) == IsAlnumDot(c) \/ c = 45 \/ c = 95

IsSpace(c) == c = 32 \/ c = 10

RECURSIVE LStrip(_)
LStrip(t) == IF t # <<>> /\ IsSpace(Head(t)) THEN LStrip(Tail(t)) ELSE t

RECURSIVE RStrip(_)
RStrip(t) ==
    IF t # <<>> /\ IsSpace(t[Len(t)]) THEN RStrip(SubSeq(t, 1, Len(t) - 1)) ELSE t

\* str.strip()
Strip(t) == RStrip(LStrip(t))

\* the length of the longest prefix of name characters
NameLen(t) ==
    CHOOSE k \in 0..Len(t) :
        /\ \A j \in 1..k : IsNameChar(t[j])
        /\ k < Len(t) => ~IsNameChar(t[k + 1])

RECURSIVE safe_name(_)
\* pkg_resources.safe_name: re.sub("[^A-Za-z0-9.]+", "-", name)
safe_name(name) ==
    IF name = <<>> THEN <<>>
    ELSE IF IsAlnumDot(Head(name)) THEN <<Head(name)>> \o safe_name(Tail(name))
    ELSE IF Len(name) > 1 /\ ~IsAlnumDot(name[2]) THEN safe_name(Tail(name))
    ELSE <<45>> \o safe_name(Tail(name))

\* str.lower() on ASCII
Lower(t) == [j \in 1..Len(t) |-> IF t[j] \in 65..90 THEN t[j] + 32 ELSE t[j]]

\* list(pkg_resources.parse_requirements(line)): a blank line or a comment
\* yields no requirement, a requirement is `name`, `name<specifier>` or
\* `name @ url`, anything else is invalid.
ParseKind(line) ==
    LET t == Strip(line)
        n == NameLen(t)
        rest == LStrip(SubSeq(t, n + 1, Len(t)))
    IN  IF t = <<>> \/ t[1] = 35 THEN "none"
        ELSE IF n = 0 THEN "invalid"
        ELSE IF rest = <<>> THEN "name"
        ELSE IF rest[1] = 64
             THEN (IF LStrip(Tail(rest)) = <<>> THEN "invalid" ELSE "url")
        ELSE IF rest[1] \in {33, 60, 61, 62, 126} THEN "specifier"
        ELSE "invalid"

\* list(pkg_resources.parse_requirements(line))[0] raises
ParseFails(line) == ParseKind(line) \in {"none", "invalid"}

\* the Requirement of a line: name as written, project_name, specifier, url
parse_requirements(line) ==
    LET t == Strip(line)
        n == NameLen(t)
        name == SubSeq(t, 1, n)
        rest == LStrip(SubSeq(t, n + 1, Len(t)))
        kind == ParseKind(line)
    IN  [name |-> name,
         project_name |-> safe_name(name),
         specifier |-> IF kind = "specifier" THEN rest ELSE <<>>,
         url |-> IF kind = "url" THEN LStrip(Tail(rest)) ELSE <<>>]

\* str(spec): "name<specifier>", or "name@ url" for a spec with a URL
Str(spec) ==
    IF spec.url # <<>>
    THEN spec.name \o <<64, 32>> \o spec.url
    ELSE spec.name \o spec.specifier

\* d[k] = v on a dict, which keeps the place of the key's first insertion
DictSet(d, k, v) ==
    IF \E j \in 1..Len(d) : d[j].k = k
    THEN [j \in 1..Len(d) |-> IF d[j].k = k THEN [k |-> k, v |-> v] ELSE d[j]]
    ELSE Append(d, [k |-> k, v |-> v])

HasKey(d, k) == \E j \in 1..Len(d) : d[j].k = k

RECURSIVE Versions(_, _)
\* lines 155-158 and 159-163: the loop that fills a dict from parsed lines
Versions(lines, d) ==
    IF lines = <<>> THEN d
    ELSE LET spec == parse_requirements(Head(lines))
         IN  Versions(Tail(lines), DictSet(d, spec.project_name, spec))

RECURSIVE PickUrls(_, _)
\* lines 166-170
PickUrls(requested_versions, final_versions) ==
    IF requested_versions = <<>> THEN final_versions
    ELSE PickUrls(Tail(requested_versions),
                  IF Head(requested_versions).v.url # <<>>
                  THEN DictSet(final_versions, Head(requested_versions).k,
                               Head(requested_versions).v)
                  ELSE final_versions)

RECURSIVE PickPinned(_, _)
\* lines 171-175
PickPinned(pinned_versions, final_versions) ==
    IF pinned_versions = <<>> THEN final_versions
    ELSE PickPinned(Tail(pinned_versions),
                    IF HasKey(final_versions, Head(pinned_versions).k)
                    THEN final_versions
                    ELSE DictSet(final_versions, Head(pinned_versions).k,
                                 Head(pinned_versions).v))

\* lines 165-175
FinalVersions(requested_versions, pinned_versions) ==
    PickPinned(pinned_versions, PickUrls(requested_versions, <<>>))

Min(a, b) == IF a < b THEN a ELSE b

\* a < b on str: by code point, a proper prefix first
LexLess(a, b) ==
    \E k \in 0..Min(Len(a), Len(b)) :
        /\ \A j \in 1..k : a[j] = b[j]
        /\ \/ k = Len(a) /\ k < Len(b)
           \/ k < Len(a) /\ k < Len(b) /\ a[k + 1] < b[k + 1]

\* the lines as the dict lists them, unsorted
Unsorted(lines) == lines

\* line 177: lines.sort()
Sorted(lines) == SortSeq(lines, LexLess)

\* lines 176-177
Lines(final_versions) ==
    Sorted([j \in 1..Len(final_versions) |-> Str(final_versions[j].v)])

RECURSIVE JoinLines(_)
\* "\n".join(lines)
JoinLines(lines) ==
    IF lines = <<>> THEN <<>>
    ELSE IF Len(lines) = 1 THEN lines[1]
    ELSE lines[1] \o <<10>> \o JoinLines(Tail(lines))

\* lines 178-180: what is written to requirements.lock
Written(lines) == JoinLines(lines) \o <<10>>

MergeStart ==
    [pc |-> "freeze", pinned_versions |-> <<>>, requested_versions |-> <<>>,
     lines |-> <<>>, error |-> ""]

cache == <<store, executable, bootstrap, inv, prev>>

\* lines 155-158
UlPinned ==
    /\ ul.pc = "freeze"
    /\ IF \E j \in 1..Len(result) : ParseFails(result[j])
       THEN ul' = [ul EXCEPT !.pc = "failed", !.error = "freeze"]
       ELSE ul' = [ul EXCEPT !.pc = "requested",
                             !.pinned_versions = Versions(result, <<>>)]
    /\ UNCHANGED <<cache, lockfile, reqtxt, result>>

\* the lock file is opened for writing before requirements.txt is parsed
UlRequestedTruncates ==
    /\ ul.pc = "requested"
    /\ IF \E j \in 1..Len(reqtxt) : ParseFails(reqtxt[j])
       THEN ul' = [ul EXCEPT !.pc = "failed", !.error = "requirements"]
       ELSE ul' = [ul EXCEPT !.pc = "final",
                             !.requested_versions = Versions(reqtxt, <<>>)]
    /\ lockfile' = <<>>
    /\ UNCHANGED <<cache, reqtxt, result>>

\* lines 159-163
UlRequested ==
    /\ ul.pc = "requested"
    /\ IF \E j \in 1..Len(reqtxt) : ParseFails(reqtxt[j])
       THEN ul' = [ul EXCEPT !.pc = "failed", !.error = "requirements"]
       ELSE ul' = [ul EXCEPT !.pc = "final",
                             !.requested_versions = Versions(reqtxt, <<>>)]
    /\ UNCHANGED <<cache, lockfile, reqtxt, result>>

\* lines 165-177
UlFinal ==
    /\ ul.pc = "final"
    /\ ul' = [ul EXCEPT !.pc = "write",
                        !.lines = Lines(FinalVersions(ul.requested_versions,
                                                      ul.pinned_versions))]
    /\ UNCHANGED <<cache, lockfile, reqtxt, result>>

\* lines 178-180. An open() that raises leaves the file as it was, a write
\* that raises after the open leaves the truncated file.
UlWrite ==
    /\ ul.pc = "write"
    /\ \/ /\ lockfile' = Written(ul.lines)
          /\ ul' = [ul EXCEPT !.pc = "done"]
       \/ /\ lockfile' \in {lockfile, <<>>}
          /\ ul' = [ul EXCEPT !.pc = "failed", !.error = "write"]
    /\ UNCHANGED <<cache, reqtxt, result>>

(* Specification of the merge on every requirements.txt and freeze output  *)
(* within the bounds.                                                      *)
MergeInit ==
    /\ store = [n \in Names |-> Absent]
    /\ lockfile \in {NoFile, LockA}
    /\ executable = Py3
    /\ bootstrap = BootV1
    /\ inv = [p \in Procs |-> Idle]
    /\ prev = NoPrev
    /\ reqtxt \in SeqsUpTo(ReqLines, MaxReq)
    /\ result \in SeqsUpTo(FreezeLines, MaxFrozen)
    /\ ul = MergeStart

MergeNext == UlPinned \/ UlRequested \/ UlFinal \/ UlWrite

SpecMerge == MergeInit /\ [][MergeNext]_vars

-----------------------------------------------------------------------------
(* update_lockfile, lines 133-181, as an operation of a process: the       *)
(* scratch environment, the install, the freeze, the merge above and the   *)
(* removal of the scratch environment.                                     *)

\* line 135
tmpdir == "updatelock"

\* lines of requirements.txt and of `pip freeze`
PinnedDjango == <<100, 106, 97, 110, 103, 111, 61, 61, 51, 46, 48>>  \* "django==3.0"
UrlMyPkg ==
    <<109, 121, 95, 112, 107, 103, 32, 64, 32, 104, 116, 116, 112, 115, 58, 47, 47, 120, 47, 109>>  \* "my_pkg @ https://x/m"
EditableLine == <<45, 101, 32, 47, 115, 114, 99, 47, 97, 112, 112>>  \* "-e /src/app"
FrozenDjango == <<68, 106, 97, 110, 103, 111, 61, 61, 51, 46, 48>>  \* "Django==3.0"
FrozenAlpha == <<97, 108, 112, 104, 97, 61, 61, 49, 46, 48>>  \* "alpha==1.0"
FrozenZeta == <<122, 101, 116, 97, 61, 61, 50, 46, 48>>  \* "zeta==2.0"
FrozenMyPkg == <<109, 121, 45, 112, 107, 103, 61, 61, 49>>  \* "my-pkg==1"

\* requirements.txt documents of the project: the third ends with a blank line
Requirements ==
    {<<PinnedDjango>>, <<UrlMyPkg>>, <<PinnedDjango, <<>> >>, <<EditableLine>>}

\* the distributions the installer resolves a line of requirements.txt to (the
\* requested one and its dependencies), and what `pip freeze` prints for them
ResolvedLine(line) ==
    IF line = PinnedDjango THEN {FrozenDjango, FrozenAlpha}
    ELSE IF line = UrlMyPkg THEN {FrozenMyPkg}
    ELSE IF line = EditableLine THEN {EditableLine, FrozenZeta}
    ELSE {}

Resolved(requirements) ==
    UNION {ResolvedLine(requirements[j]) : j \in 1..Len(requirements)}

RECURSIVE Freeze(_)
\* pip freeze: one line per installed distribution, ordered by lower-cased name
Freeze(packages) ==
    IF packages = {} THEN <<>>
    ELSE LET first == CHOOSE x \in packages :
                          \A y \in packages : ~LexLess(Lower(y), Lower(x))
         IN  <<first>> \o Freeze(packages \ {first})

\* main() dispatches to update_lockfile; lines 135-136
UlStart(p) ==
    /\ inv[p].pc = "idle"
    /\ inv' = [inv EXCEPT ![p] =
             [Idle EXCEPT !.pc = "ev_pip3",
                          !.env_dir = tmpdir, !.target = tmpdir,
                          !.ret = "ul_install",
                          !.inputs = <<lockfile>>,
                          !.entry0 = store[tmpdir]]]
    /\ UNCHANGED <<store, others>>

\* lines 138-139: pip install -r requirements.txt adds what it resolves to the
\* distributions the environment already holds
UlInstall(p) ==
    /\ inv[p].pc = "ul_install"
    /\ \/ /\ store[tmpdir].python /\ store[tmpdir].pip3
          /\ store' = [store EXCEPT ![tmpdir].packages = @ \cup Resolved(reqtxt)]
          /\ Issue(p, "install", "ul_paths")
       \/ /\ Raise(p, "install")
          /\ UNCHANGED store
    /\ UNCHANGED others

\* lines 142-151
UlPaths(p) ==
    /\ inv[p].pc = "ul_paths"
    /\ \/ /\ store[tmpdir].python
          /\ Issue(p, "sys-path", "ul_freeze")
       \/ Raise(p, "sys-path")
    /\ UNCHANGED <<store, others>>

\* lines 153-154
UlFreeze(p) ==
    /\ inv[p].pc = "ul_freeze"
    /\ \/ /\ store[tmpdir].python /\ store[tmpdir].pip3
          /\ result' = Freeze(store[tmpdir].packages)
          /\ ul' = MergeStart
          /\ Issue(p, "freeze", "ul_merge")
       \/ /\ Raise(p, "pip-freeze")
          /\ UNCHANGED <<result, ul>>
    /\ UNCHANGED <<store, lockfile, executable, bootstrap, prev, reqtxt>>

\* an exception of lines 155-180 propagates to the top level
UlRaise(p) ==
    /\ inv[p].pc = "ul_merge"
    /\ ul.pc = "failed"
    /\ Raise(p, ul.error)
    /\ ul' = NoMerge
    /\ UNCHANGED <<store, lockfile, executable, bootstrap, prev, reqtxt, result>>

\* line 181
UlRmTmpdir(p) ==
    /\ inv[p].pc = "ul_merge"
    /\ ul.pc = "done"
    /\ \/ /\ store' = Remove(store, tmpdir)
          /\ Issue(p, "rm", "ul_end")
       \/ /\ Raise(p, "rm")
          /\ UNCHANGED store
    /\ ul' = NoMerge
    /\ UNCHANGED <<lockfile, executable, bootstrap, prev, reqtxt, result>>

\* update_lockfile returns and the process ends
UlReturn(p) ==
    /\ inv[p].pc = "ul_end"
    /\ prev' = Ended(p, Kind(p), TRUE)
    /\ inv' = [inv EXCEPT ![p] = Idle]
    /\ UNCHANGED <<store, lockfile, executable, bootstrap, reqtxt, result, ul>>

\* requirements.txt is edited
SetRequirements(r) ==
    /\ r # reqtxt
    /\ reqtxt' = r
    /\ UNCHANGED <<store, lockfile, executable, bootstrap, inv, prev, result, ul>>

(* Specification of lock updates that run one after another.                *)
UpdateInit ==
    /\ store = [n \in Names |-> Absent]
    /\ lockfile \in {NoFile, LockA}
    /\ executable = Py3
    /\ bootstrap = BootV1
    /\ inv = [p \in Procs |-> Idle]
    /\ prev = NoPrev
    /\ reqtxt \in Requirements
    /\ result = <<>>
    /\ ul = NoMerge

UlSteps(p) ==
    \/ EvPip3(p) \/ EvExists(p) \/ EvRm(p) \/ EvCreate(p)
    \/ EvEnsurepip(p) \/ EvUpgrade(p)
    \/ UlInstall(p) \/ UlPaths(p) \/ UlFreeze(p)
    \/ UlPinned \/ UlRequested \/ UlFinal \/ UlWrite
    \/ UlRaise(p) \/ UlRmTmpdir(p) \/ UlReturn(p)
    \/ Exit(p) \/ Crash(p)

UpdateNext ==
    \/ UlStart(Main)
    \/ UlSteps(Main)
    \/ Quiet /\ \E r \in Requirements : SetRequirements(r)

SpecUpdate == UpdateInit /\ [][UpdateNext]_vars

(* Specification of one lock update by a process while another process    *)
(* runs one invocation: the steps of the two interleave. The store starts  *)
(* in a state that earlier operations leave.                               *)
Other == 2

\* the identity of the inputs the invocation starts on
Here == env_hash(Py3, LockA, BootV1)

\* an entry after a complete build from LockA (lines 231-244)
ReadyEntry ==
    [EmptyDir EXCEPT !.python = TRUE, !.pip3 = TRUE, !.lockcopy = LockA,
                     !.installed = LockA, !.checked = TRUE, !.ready = TRUE]

\* an entry whose build was interrupted after venv.create (line 71)
InterruptedEntry == [EmptyDir EXCEPT !.python = TRUE]

\* the scratch environment an aborted update_lockfile leaves (lines 136-139)
LeftScratch ==
    [EmptyDir EXCEPT !.python = TRUE, !.pip3 = TRUE,
                     !.packages = Resolved(<<UrlMyPkg>>)]

StoreWith(entry, scratch) ==
    [n \in Names |-> IF n = Here THEN entry
                     ELSE IF n = tmpdir THEN scratch
                     ELSE Absent]

SharedInit ==
    /\ store \in {StoreWith(e, t) :
                     e \in {Absent, InterruptedEntry, ReadyEntry},
                     t \in {Absent, InterruptedEntry, LeftScratch}}
    /\ lockfile \in {NoFile, LockA}
    /\ executable = Py3
    /\ bootstrap = BootV1
    /\ inv = [p \in Procs |-> Idle]
    /\ prev = NoPrev
    /\ reqtxt = <<PinnedDjango>>
    /\ result = <<>>
    /\ ul = NoMerge

\* no operation has ended yet: each process runs one operation
FirstRun == prev = NoPrev

SharedNext ==
    \/ FirstRun /\ UlStart(Main)
    \/ UlSteps(Main)
    \/ FirstRun /\ \E u \in BOOLEAN : Start(Other, u)
    \/ Steps(Other)

SpecShared == SharedInit /\ [][SharedNext]_vars

(* Specification of two invocations on the same inputs whose steps         *)
(* interleave (no lock is taken anywhere in _prepare).                     *)
ConcurrentInit ==
    /\ store \in {[StoreWith(e, Absent) EXCEPT !["notes.txt"] = f] :
                     e \in {Absent, InterruptedEntry, ReadyEntry},
                     f \in {Absent, PlainFile}}
    /\ lockfile = LockA
    /\ executable = Py3
    /\ bootstrap = BootV1
    /\ inv = [p \in Procs |-> Idle]
    /\ prev = NoPrev
    /\ reqtxt = <<PinnedDjango>>
    /\ result = <<>>
    /\ ul = NoMerge

ConcurrentNext ==
    \E p \in Procs :
        \/ FirstRun /\ \E u \in BOOLEAN : Start(p, u)
        \/ Steps(p)

SpecConcurrent == ConcurrentInit /\ [][ConcurrentNext]_vars

-----------------------------------------------------------------------------
(* Properties of the environment cache.                                    *)

\* the steps of a full build, in the order of lines 231-244
FullBuild ==
    <<"venv", "ensurepip", "pip-upgrade", "lockcopy", "install", "check", "marker">>

BuildSteps == {FullBuild[k] : k \in 1..Len(FullBuild)} \cup {"rm"}

\* the commands run through cmd() and the runtime creation
ExternalCommands ==
    {"rm", "venv", "ensurepip", "pip-upgrade", "install", "check"}

IsBuildStep(what) == what \in BuildSteps

\* the build steps of a log, without the prune loop's removals
Built(log) == SelectSeq(log, IsBuildStep)

Times(log, what) == Cardinality({k \in 1..Len(log) : log[k] = what})

\* every build step has completed in this incarnation of the entry
FullyBuilt(e) ==
    /\ e.kind = "dir"
    /\ e.python
    /\ e.pip3
    /\ e.lockcopy # NoFile
    /\ e.installed = e.lockcopy
    /\ e.checked

\* the entry exists and has no marker
Corrupt(e) == e.kind # "none" /\ ~e.ready

\* C1: with one invocation at a time and crashes or command failures after any
\* step, every identity entry that holds the appenv.ready marker has its
\* runtime created, its lock copy written, its pinned install and its pip
\* check completed in that same incarnation of the directory.
MarkerLast ==
    \A n \in Identities : store[n].ready => FullyBuilt(store[n])

\* a Ready entry is in the store after an invocation was killed
MarkerLastWitness ==
    \E n \in Identities : store[n].ready /\ prev.kind = "crash"

\* C2: a clean-path invocation that starts on an entry without marker deletes
\* it and runs the whole build; it ends Ready, and it ends with an error only
\* when an external command failed.
CorruptRecovery ==
    LET i == inv[Main] IN
    (i.clean /\ Corrupt(i.entry0)) =>
        /\ i.pc = "exec" =>
              /\ store[i.env_dir].ready
              /\ i.error = ""
              /\ Built(i.log) = <<"rm">> \o FullBuild
        /\ i.pc = "failed" => i.error \in ExternalCommands
        /\ i.pc \in {"exists2", "ev_pip3", "ev_exists", "ev_create"} =>
              ~Exists(store, i.env_dir)
        /\ i.pc # "ev_rm"

\* an invocation that found the entry without marker is about to exec
CorruptRecoveryWitness ==
    LET i == inv[Main] IN
    i.clean /\ Corrupt(i.entry0) /\ i.pc = "exec" /\ store[i.env_dir].ready

\* C3: a clean-path invocation that follows a successful one with the same
\* interpreter, lock and bootstrap bytes is a cache hit: it issues no build
\* step, leaves the entry as it was and returns the same directory.
IdempotentEnsure ==
    LET i == inv[Main] IN
    (i.clean /\ prev.kind = "clean" /\ prev.ok /\ prev.inputs = i.inputs) =>
        /\ i.entry0.ready
        /\ i.env_dir = prev.dir
        /\ store[i.env_dir] = i.entry0
        /\ Built(i.log) = <<>>
        /\ i.pc # "failed"

\* the second of two such invocations has returned from _prepare
IdempotentEnsureWitness ==
    LET i == inv[Main] IN
    /\ i.clean /\ prev.kind = "clean" /\ prev.ok /\ prev.inputs = i.inputs
    /\ i.pc = "exec"

\* C4: right after the prune loop the children of the store are those it had
\* before the loop that are the current identity's entry or "unclean".
JanitorInvariant ==
    LET i == inv[Main] IN
    (i.clean /\ i.pc = "exists") =>
        Children(store) = i.before \cap Whitelist(i.env_dir)

\* C5: on the clean path os.execv is reached only after _prepare returned the
\* current identity's directory with its marker in it, and never after a step
\* of the invocation failed.
ExecOnlyFromReady ==
    LET i == inv[Main] IN
    /\ (i.clean /\ i.pc = "exec") =>
          /\ store[i.env_dir].ready
          /\ i.env_dir = env_hash(i.inputs[1], i.inputs[2], i.inputs[3])
          /\ i.error = ""
    /\ i.error # "" => i.pc = "failed"

\* an invocation that built the entry itself is about to exec
ExecOnlyFromReadyWitness ==
    LET i == inv[Main] IN
    i.clean /\ i.pc = "exec" /\ Built(i.log) = FullBuild

\* C6: when the pinned install or pip check fails the invocation ends with an
\* error, the failing command was issued once and is the last step, no marker
\* is written and the directory stays in place.
BuildFailureFatal ==
    LET i == inv[Main] IN
    (i.clean /\ i.pc = "failed" /\ i.error \in {"install", "check"}) =>
        /\ store[i.env_dir].kind = "dir"
        /\ ~store[i.env_dir].ready
        /\ i.log[Len(i.log)] = i.error
        /\ Times(i.log, i.error) = 1
        /\ Times(i.log, "marker") = 0
        /\ i.error = "install" => Times(i.log, "check") = 0

\* a build ended by a failing install
BuildFailureFatalWitness ==
    LET i == inv[Main] IN
    /\ i.clean /\ i.pc = "failed" /\ i.error = "install"
    /\ store[i.env_dir].installed = Partial

\* C10: two clean-path invocations whose (interpreter, lock, bootstrap) byte
\* strings differ in a component get different identity directories.
IdentitySensitivity ==
    LET i == inv[Main] IN
    (i.clean /\ prev.kind = "clean" /\ prev.inputs # i.inputs) =>
        i.env_dir # prev.dir

-----------------------------------------------------------------------------
(* Properties of the lock merge.                                           *)

Values(d) == {d[j].v : j \in 1..Len(d)}

Mapping(d) == {<<d[j].k, d[j].v>> : j \in 1..Len(d)}

\* the name of a dependency, case- and format-normalised
DependencyName(spec) == Lower(safe_name(spec.name))

\* the requested specs that carry a source URL
UrlRequested == {r \in Values(ul.requested_versions) : r.url # <<>>}

WrittenLines == {ul.lines[j] : j \in 1..Len(ul.lines)}

\* C7: the specs written are the requested specs that carry a URL, and the
\* resolved specs whose name is not the name of such a requested spec.
MergeResult ==
    ul.pc = "done" =>
        WrittenLines =
            {Str(r) : r \in UrlRequested} \cup
            {Str(q) : q \in {q \in Values(ul.pinned_versions) :
                        \A r \in UrlRequested :
                            DependencyName(q) # DependencyName(r)}}

\* C8: the lock document written has at most one line per dependency name.
NoDuplicateNames ==
    ul.pc = "done" =>
        \A j, k \in 1..Len(ul.lines) :
            j # k => DependencyName(parse_requirements(ul.lines[j]))
                        # DependencyName(parse_requirements(ul.lines[k]))

Perms(t) ==
    {[j \in 1..Len(t) |-> t[f[j]]] :
        f \in {g \in [1..Len(t) -> 1..Len(t)] :
                  \A a, b \in 1..Len(t) : a # b => g[a] # g[b]}}

\* the bytes update_lockfile writes for a requirements.txt and a freeze output
UpdateLockBytes(requirements_txt, freeze) ==
    Written(Lines(FinalVersions(Versions(requirements_txt, <<>>),
                                Versions(freeze, <<>>))))

\* the orders of the lines `t` that fill the dict with the mapping of `d`
SameMapping(t, d) ==
    {r \in Perms(t) : Mapping(Versions(r, <<>>)) = Mapping(d)}

Ascending(lines) ==
    \A j \in 1..Len(lines) - 1 : ~LexLess(lines[j + 1], lines[j])

RECURSIVE Terminated(_)
\* every line followed by a newline
Terminated(lines) ==
    IF lines = <<>> THEN <<>>
    ELSE Head(lines) \o <<10>> \o Terminated(Tail(lines))

SortedAndTerminated ==
    /\ Ascending(ul.lines)
    /\ lockfile = IF ul.lines = <<>> THEN <<10>> ELSE Terminated(ul.lines)

-----------------------------------------------------------------------------
(* Properties of update_lockfile as an operation.                          *)

\* process p is about to leave update_lockfile, by return or by an exception
Leaving(p) == Kind(p) = "update" /\ inv[p].pc \in {"ul_end", "failed"}

\* C11: an update_lockfile that reached the write of the lock file (it wrote
\* it, or the write raised) does not end with the scratch environment
\* "updatelock" still in the store.
ScratchCleanup ==
    \A p \in Procs :
        Leaving(p) /\ (inv[p].pc = "ul_end" \/ inv[p].error = "write")
            => ~Exists(store, tmpdir)

\* C12: when a line of the freeze output or of requirements.txt does not
\* parse, update_lockfile ends with an error and the lock file holds the bytes
\* it held when the operation began.
NoPartialLock ==
    \A p \in Procs :
        Leaving(p) /\ inv[p].error \in {"freeze", "requirements"}
            => /\ inv[p].pc = "failed"
               /\ lockfile = inv[p].inputs[1]

\* a blank line of requirements.txt has ended an update that found a lock file
NoPartialLockWitness ==
    \E p \in Procs :
        /\ Leaving(p)
        /\ inv[p].error = "requirements"
        /\ \E j \in 1..Len(reqtxt) : ParseKind(reqtxt[j]) = "none"
        /\ lockfile # NoFile
        /\ Times(inv[p].log, "freeze") = 1

\* C18: update_lockfile installs into a scratch environment that holds no
\* distribution yet, and what it freezes is what the installer resolves the
\* current requirements.txt to.
FreshScratch ==
    \A p \in Procs :
        /\ inv[p].pc = "ul_install" => store[tmpdir].packages = {}
        /\ inv[p].pc = "ul_merge" => result = Freeze(Resolved(reqtxt))

-----------------------------------------------------------------------------
(* Frame properties.                                                       *)

\* the positions of the identity hash, the prune loop and the marker check
CleanOnly == {"glob", "prune", "exists", "has_marker", "rm", "exists2"}

\* C13: every step of an invocation on the unclean path leaves all store
\* entries other than "unclean" as they are, stays out of the identity hash and
\* the prune loop, and works on and returns the directory "unclean".
UncleanFrame ==
    [][\A p \in Procs :
          inv[p].pc # "idle" /\ Kind(p) = "unclean" /\ inv'[p] # inv[p]
              => /\ \A n \in Names \ {"unclean"} : store'[n] = store[n]
                 /\ inv'[p].pc \notin CleanOnly
                 /\ inv'[p].pc # "idle"
                        => /\ inv'[p].env_dir = "unclean"
                           /\ inv'[p].target = "unclean"
                           /\ inv'[p].inputs = <<>>
                           /\ Times(inv'[p].log, "prune") = 0]_vars

\* an unclean invocation has installed into "unclean" and is about to exec,
\* next to a Ready identity entry and a foreign file
UncleanFrameWitness ==
    \E p \in Procs :
        /\ inv[p].pc = "exec"
        /\ Kind(p) = "unclean"
        /\ store["unclean"] # inv[p].entry0
        /\ store["unclean"].installed = FromRequirementsTxt
        /\ \E n \in Identities : store[n].ready
        /\ \E n \in ForeignNames : Exists(store, n)

\* C14: the lock file at the base directory changes only in the write of
\* update_lockfile (lines 178-180); no step of an invocation, on the clean or
\* the unclean path, changes it.
LockSingleWriter ==
    [][lockfile' # lockfile
          => /\ ul.pc = "write"
             /\ ul'.pc \in {"done", "failed"}
             /\ inv' = inv
             /\ store' = store]_vars

\* an invocation has built its entry from the lock it read while the update
\* wrote another lock document
LockSingleWriterWitness ==
    /\ inv[Other].pc = "exec"
    /\ Kind(Other) = "clean"
    /\ Times(inv[Other].log, "marker") = 1
    /\ store[inv[Other].env_dir].lockcopy = inv[Other].requirements
    /\ lockfile \in WrittenLocks \ {LockEmpty}
    /\ lockfile # inv[Other].requirements

\* C17: no step of a clean-path invocation, its prune loop included, changes
\* the reserved entries "unclean" and "updatelock"; the scratch environment of
\* a running update_lockfile stays as it is until the update removes it.
ReservedExempt ==
    [][\A p \in Procs :
          Kind(p) = "clean" /\ inv'[p] # inv[p]
              => \A n \in {"unclean", tmpdir} : store'[n] = store[n]]_vars

-----------------------------------------------------------------------------
(* Properties of the prune loop.                                           *)

\* the identity-named entries of the store
IdentityEntries(s) == {n \in Identities : Exists(s, n)}

\* process p runs a clean invocation that has left the prune loop behind
PastPrune(p) ==
    /\ Kind(p) = "clean"
    /\ inv[p].pc \notin {"idle", "glob", "prune"}
    /\ inv[p].pc = "failed" => inv[p].error # "prune"

\* C16: with invocations that run one after another the store holds at most
\* one identity-named entry; once a clean invocation is past its prune loop
\* (whether it then hits the cache, builds or fails) that entry can only be
\* the one of its own identity, and after a successful clean invocation it is
\* exactly that one.
OneIdentityEntry ==
    /\ Cardinality(IdentityEntries(store)) <= 1
    /\ \A p \in Procs :
          PastPrune(p) => IdentityEntries(store) \subseteq {inv[p].env_dir}
    /\ Quiet /\ prev.kind = "clean" /\ prev.ok
          => IdentityEntries(store) = {prev.dir}

\* a clean invocation has pruned the Ready entry of the previous identity and
\* built its own
OneIdentityEntryWitness ==
    \E p \in Procs :
        /\ PastPrune(p)
        /\ inv[p].pc = "exec"
        /\ Times(inv[p].log, "prune") >= 1
        /\ prev.kind = "clean" /\ prev.ok
        /\ prev.dir # inv[p].env_dir
        /\ prev.dir \in inv[p].before
        /\ IdentityEntries(store) = {inv[p].env_dir}
        /\ store[inv[p].env_dir].ready

-----------------------------------------------------------------------------
(* Properties under interleaved invocations.                               *)

\* C15: with two clean-path invocations of the same identity interleaved step
\* by step, an entry that holds the marker appenv.ready holds a runtime, the
\* install from its lock copy and a passed check.
ConcurrentMarkerSafety ==
    \A p \in Procs :
        Kind(p) = "clean" /\ store[inv[p].env_dir].ready
            => /\ store[inv[p].env_dir].python
               /\ store[inv[p].env_dir].pip3
               /\ store[inv[p].env_dir].installed = inv[p].requirements
               /\ store[inv[p].env_dir].checked

\* C19: the lock copy of a Ready identity entry is the document its install
\* ran from and a document that hashes, with some interpreter and bootstrap,
\* to the entry's name; the invocation that built the entry copied the bytes it
\* read and hashed at its start, whatever the base lock file holds by then.
IdentityMatchesContent ==
    /\ \A n \in Identities :
          store[n].ready
              => /\ store[n].installed = store[n].lockcopy
                 /\ \E t \in Triples :
                       t[2] = store[n].lockcopy /\ env_hash(t[1], t[2], t[3]) = n
    /\ \A p \in Procs :
          Kind(p) = "clean" /\ Times(inv[p].log, "marker") = 1
              => /\ inv[p].env_dir = env_hash(inv[p].inputs[1],
                                              inv[p].requirements, inv[p].inputs[3])
                 /\ inv[p].inputs[2] = inv[p].requirements
                 /\ store[inv[p].env_dir].ready
                        => store[inv[p].env_dir].lockcopy = inv[p].requirements

\* an entry was built and marked from LockA after update_lockfile had put
\* another document in place of the base lock file
IdentityMatchesContentWitness ==
    /\ Times(inv[Other].log, "lockcopy") = 1
    /\ Times(inv[Other].log, "marker") = 1
    /\ inv[Other].requirements = LockA
    /\ store[Here].ready
    /\ store[Here].lockcopy = LockA
    /\ lockfile = LockDjango
    /\ Kind(Main) = "update"

====
